---- MODULE Spec2Model ----
(***************************************************************************)
(* muinit: a minimal init / subprocess supervisor (src/muinit.c).          *)
(*                                                                         *)
(* The model is the supervision loop of main() together with the signal    *)
(* handler, at the granularity of the statements that touch shared state:  *)
(* conf.termination_stage, the alarm() timer and the signal mask.  The     *)
(* supervisor is one thread; a handler runs as a frame pushed on top of    *)
(* the code it interrupts, and the interrupted code resumes only when the  *)
(* handler has returned.  Handlers are installed with signal(), so while a *)
(* handler runs only its own signal is added to the mask, and the mask of  *)
(* the interrupted code is restored when it returns.  Time is not          *)
(* modelled: an armed timer may run out at any moment.                     *)
(***************************************************************************)
EXTENDS Integers, Sequences, FiniteSets, TLC

\* ------------------------------------------------------------------ bounds
MaxSteps   == 2   \* longest -k list explored
MaxTimeout == 1   \* largest -t value explored (0 is accepted by the parser)
MaxSpawn   == 2   \* most subprocesses spawned at startup
MaxPid     == 2   \* pids 1..MaxPid may ever be children (spawned or adopted)
MaxEvents  == 2   \* signals sent to the supervisor plus failing wait() calls
MaxStalls  == 1   \* timer expiries that find the supervisor not in wait()
MaxArgs    == 4   \* arguments on the command line
MaxDepth   == 3   \* frames on the stack: main and the handlers nested on it

\* --------------------------------------------------------- signal numbers
SIGINT  == 2
SIGKILL == 9
SIGALRM == 14
SIGTERM == 15
SIGSTOP == 19
SIGRTMAX == 64
DefaultTimeout == 2

ForwardSet == {SIGINT}                \* the -s set (default)
AllSigs == {SIGINT, SIGALRM, SIGTERM} \* signals with a handler (sigfillset)
Garbage == {0, SIGKILL}               \* what a read past the step list yields

Pids == 1..MaxPid
MainCtx == 0

VARIABLES
    termination_signals,  \* conf.termination_signals (1-based sequence)
    timeout,              \* conf.timeout
    termination_stage,    \* conf.termination_stage
    alarmArmed,           \* a one-shot alarm() timer is pending
    pending,              \* signals generated for the supervisor, undelivered
    mask,                 \* the supervisor's blocked-signal mask
    stack,                \* main frame, then the handler frames above it
    interrupted,          \* a handler ran while main was inside wait()
    child,                \* pid -> "none" | "running" | "zombie" | "reaped"
    cstat,                \* pid -> wait status of a zombie
    rc,                   \* main's aggregate return code
    exitKind,             \* "running" | "returned" | "exhausted"; before the
                          \* loop "config_error" | "help" | "spawn_error" |
                          \* "aborted"
    exitStatus,           \* the supervisor's exit status once it has ended
    nEvents,              \* environment budget used so far
    nStalls,              \* timer expiries outside wait() so far
    escLog,               \* step indexes broadcast since the last stage reset
    observed,             \* child codes seen by the main loop, in order
    waitFailed,           \* a wait() error other than EINTR/ECHILD happened
    mainAdvances,         \* terminate_children() calls made by the main loop
    termSent,             \* a SIGTERM has been sent to the supervisor
    lastBcast,            \* the most recent broadcast: signal and targets
    adopted,              \* the children that were not spawned by main
    tickDue,              \* the timer armed by the latest advance has run out
    argv,                 \* argv[1..argc-1], each argument a sequence of chars
    spc,                  \* main's position before the loop, "loop" once in it
    argi,                 \* the index i of the loop over argv being executed
    first_child_argv,     \* index of the first argument after the first ---
    child_argv,           \* spawn_children: index where the current run starts
    spawn_count,          \* spawn_children: the count it returns
    spawned,              \* the argument vectors exec'ed so far, in order
    forward_signals,      \* the -s list
    diag                  \* the diagnostic printed at a startup exit

vars == <<termination_signals, timeout, termination_stage, alarmArmed, pending,
          mask, stack, interrupted, child, cstat, rc, exitKind, exitStatus,
          nEvents, nStalls, escLog, observed, waitFailed, mainAdvances, termSent,
          lastBcast, adopted, tickDue, argv, spc, argi, first_child_argv,
          child_argv, spawn_count, spawned, forward_signals, diag>>

startVars == <<argv, spc, argi, first_child_argv, child_argv, spawn_count,
               spawned, forward_signals, diag>>
confVars == <<termination_signals, timeout, startVars>>
logVars == <<escLog, observed, waitFailed, mainAdvances, termSent,
            lastBcast>>
histVars == <<logVars, adopted, tickDue>>
childVars == <<child, cstat>>
exitVars == <<exitKind, exitStatus>>
envVars == <<nEvents, nStalls>>

\* ------------------------------------------------------------- wait status
\* The encoding of <sys/wait.h>: low 7 bits the terminating signal, next
\* byte the exit code.
ExitedWith(c)   == c * 256
KilledBy(s)     == s
WIFSIGNALED(st) == (st % 128) # 0
WTERMSIG(st)    == st % 128
WEXITSTATUS(st) == (st \div 256) % 256

\* main, lines 427-432
ChildRc(st) == IF WIFSIGNALED(st) THEN 128 + WTERMSIG(st) ELSE WEXITSTATUS(st)

ExitCodes == {0, 3}
KillerSigs == {SIGTERM}
WaitStats == {ExitedWith(c) : c \in ExitCodes} \cup {KilledBy(s) : s \in KillerSigs}

\* ------------------------------------------------------------------ frames
\* ctx: MainCtx or the signal being handled; pc: the next statement; saved:
\* the mask to restore on return; sig: the signal being broadcast; tmp: the
\* stage loaded by line 242 or 243; rstage: the stage when the signal was
\* delivered.
Frame(ctx, pc, saved, sig, tmp, rstage) ==
    [ctx |-> ctx, pc |-> pc, saved |-> saved, sig |-> sig, tmp |-> tmp,
     rstage |-> rstage]

Depth == Len(stack)
Top == stack[Depth]
Running == exitKind = "running"

\* A signal that is pending and not blocked is delivered before the
\* supervisor executes its next statement (unless the model's stack is full:
\* then it stays pending, as if it had been generated later).
Deliverable == pending \ mask
At(pc) == Running /\ (Deliverable = {} \/ Depth >= MaxDepth) /\ Top.pc = pc

\* The supervisor sees its children only in wait() and when it reads the
\* children file: a change of the child set is taken right before one of the
\* two.  It sees a blocked signal only once it unblocks: a signal sent while
\* blocked is taken right before the unblocking.
AboutToLookAtChildren ==
    \/ Top.pc \in {"tc_send", "ss_send"}
    \/ Depth = 1 /\ Top.pc = "wait"
Noticed(s) == s \notin mask \/ Top.pc = "ss_unblock"

SetTop(f) == [stack EXCEPT ![Depth] = f]
Goto(pc) == SetTop([Top EXCEPT !.pc = pc])

\* the children listed in /proc/<pid>/task/<pid>/children: every child that
\* has not been reaped yet
Listed == {p \in Pids : child[p] \in {"running", "zombie"}}

\* the -k lists explored: the last n entries of ..., SIGTERM, SIGKILL (the
\* default list and the lists it ends with)
StepList(n) ==
    [i \in 1..n |-> IF (n - i) % 2 = 0 THEN SIGKILL ELSE SIGTERM]
StepLists == {StepList(n) : n \in 1..MaxSteps}

\* ------------------------------------------------------------ command line
\* An argument is the sequence of its characters.
Digits == <<"0", "1", "2", "3", "4", "5", "6", "7", "8", "9">>
IsDigit(c) == \E k \in 1..10 : Digits[k] = c
DigitVal(c) == (CHOOSE k \in 1..10 : Digits[k] = c) - 1

Flag(c) == <<"-", c>>
Delimiter == <<"-", "-", "-">>

\* lines 218 and 324: the argument is exactly three hyphens
IsDelimiter(arg) == arg = Delimiter
\* lines 275-276: arg[0] == '-' and the argument has exactly two characters
IsOption(arg) == Len(arg) = 2 /\ arg[1] = "-"
\* An option that takes the empty string for a value.
HasValueOrEmpty(k) == k <= Len(argv)

\* lines 283, 295, 307: the option has a value that is not the empty string
HasValue(k) == k <= Len(argv) /\ argv[k] # <<>>

\* strtol(s + pos, &next, 10): an optional sign and the longest run of digits
\* from pos; without a digit nothing is converted and next stays at pos.
RECURSIVE ScanDigits(_, _, _)
ScanDigits(str, pos, acc) ==
    IF pos <= Len(str) /\ IsDigit(str[pos])
      THEN ScanDigits(str, pos + 1, acc * 10 + DigitVal(str[pos]))
      ELSE [val |-> acc, next |-> pos]
Strtol(str, pos) ==
    LET neg    == pos <= Len(str) /\ str[pos] = "-"
        signed == neg \/ (pos <= Len(str) /\ str[pos] = "+")
        start  == IF signed THEN pos + 1 ELSE pos
        r      == ScanDigits(str, start, 0)
    IN  IF r.next = start
          THEN [val |-> 0, next |-> pos]
          ELSE [val |-> IF neg THEN 0 - r.val ELSE r.val, next |-> r.next]

\* read_signals_array, the loop of lines 106-127, from position buf on
RECURSIVE ReadLoop(_, _, _)
ReadLoop(str, buf, signals) ==
    IF buf > Len(str) THEN [rc |-> 0, signals |-> signals, diag |-> ""]
    ELSE LET r == Strtol(str, buf)
         IN  IF r.next = buf \/ (r.next <= Len(str) /\ str[r.next] # ",")
               THEN [rc |-> 1, signals |-> signals, diag |-> "unexpected value"]
             ELSE IF r.val < 0 \/ r.val > SIGRTMAX
               THEN [rc |-> 1, signals |-> signals,
                     diag |-> "invalid signal number"]
             ELSE ReadLoop(str,
                           IF r.next <= Len(str) THEN r.next + 1 ELSE r.next,
                           Append(signals, r.val))

\* read_signals_array(s, &count, &signals), lines 99-130
read_signals_array(str, signals) ==
    IF str = <<>>
      THEN [rc |-> 1, signals |-> signals, diag |-> "no signals given"]
      ELSE ReadLoop(str, 1, signals)

\* lines 312-313: strtol on the whole value, nothing left over, not negative
ParseTimeout(str) ==
    LET r == Strtol(str, 1)
    IN  [ok |-> r.next > Len(str) /\ r.val >= 0, val |-> r.val]

\* register_signal_handler, lines 130-135: signal() refuses the signals that
\* cannot be caught and the numbers that are no signal.
Catchable(sig) == sig \in 1..SIGRTMAX /\ sig \notin {SIGKILL, SIGSTOP}

\* The command line that gives a configuration: its decimal numbers and lists.
RECURSIVE Decimal(_)
Decimal(n) ==
    IF n < 10 THEN <<Digits[n + 1]>>
    ELSE Decimal(n \div 10) \o <<Digits[(n % 10) + 1]>>
RECURSIVE SignalList(_)
SignalList(signals) ==
    IF Len(signals) = 1 THEN Decimal(signals[1])
    ELSE Decimal(Head(signals)) \o <<",">> \o SignalList(Tail(signals))
RECURSIVE Commands(_)
Commands(n) ==
    IF n = 0 THEN <<>> ELSE <<Delimiter, <<"a">>>> \o Commands(n - 1)
CommandLine(signals, seconds, n) ==
    <<Flag("k"), SignalList(signals), Flag("t"), Decimal(seconds)>>
      \o Commands(n)

\* The state when main enters its loop (line 409): the options parsed, the
\* handlers registered, the children spawned, the signals unblocked.
Init ==
    /\ termination_signals \in StepLists
    /\ timeout \in 0..MaxTimeout
    /\ termination_stage = 0
    /\ alarmArmed = FALSE
    /\ pending = {}
    /\ mask = {}
    /\ stack = <<Frame(MainCtx, "wait", {}, 0, 0, 0)>>
    /\ interrupted = FALSE
    /\ \E n \in 1..MaxSpawn :
          /\ child = [p \in Pids |-> IF p <= n THEN "running" ELSE "none"]
          /\ argv = CommandLine(termination_signals, timeout, n)
          /\ spawned = [k \in 1..n |-> <<<<"a">>>>]
          /\ spawn_count = n
    /\ spc = "loop"
    /\ argi = Len(argv) + 1
    /\ first_child_argv = Len(CommandLine(termination_signals, timeout, 0)) + 2
    /\ child_argv = Len(argv)
    /\ forward_signals = <<SIGINT>>
    /\ diag = ""
    /\ cstat = [p \in Pids |-> 0]
    /\ rc = 0
    /\ exitKind = "running"
    /\ exitStatus = 0
    /\ nEvents = 0
    /\ nStalls = 0
    /\ escLog = <<>>
    /\ observed = <<>>
    /\ waitFailed = FALSE
    /\ mainAdvances = 0
    /\ termSent = FALSE
    /\ lastBcast = [sig |-> 0, to |-> {}]
    /\ adopted = {}
    /\ tickDue = FALSE

\* ------------------------------------------------------------ environment
\* The alarm() timer runs out: SIGALRM is generated for the supervisor.  The
\* timeout is a number of seconds: it normally runs out while main sleeps in
\* wait(); running out while the supervisor executes takes a stall.
Asleep ==
    /\ Depth = 1 /\ Top.pc = "wait" /\ ~interrupted
    /\ Listed # {} /\ \A p \in Listed : child[p] = "running"
TimerExpire ==
    /\ Running
    /\ alarmArmed
    /\ IF Asleep THEN UNCHANGED nStalls
                 ELSE nStalls < MaxStalls /\ nStalls' = nStalls + 1
    /\ alarmArmed' = FALSE
    /\ pending' = pending \cup {SIGALRM}
    /\ tickDue' = TRUE
    /\ UNCHANGED <<confVars, termination_stage, mask, stack, interrupted,
                   childVars, rc, exitVars, nEvents, logVars, adopted>>

\* Somebody sends the supervisor SIGTERM or a signal of the -s set.  Standard
\* signals do not queue: a second instance of a pending signal coalesces.
SendSignal(s) ==
    /\ Running
    /\ Noticed(s)
    /\ nEvents < MaxEvents
    /\ nEvents' = nEvents + 1
    /\ UNCHANGED nStalls
    /\ pending' = pending \cup {s}
    /\ termSent' = (termSent \/ s = SIGTERM)
    /\ UNCHANGED <<confVars, termination_stage, alarmArmed, mask, stack,
                   interrupted, childVars, rc, exitVars, escLog, observed,
                   waitFailed, mainAdvances, lastBcast, adopted, tickDue>>

\* A child terminates: by exit(c), or killed by a signal.
ChildExit(p, st) ==
    /\ Running
    /\ AboutToLookAtChildren
    /\ child[p] = "running"
    /\ child' = [child EXCEPT ![p] = "zombie"]
    /\ cstat' = [cstat EXCEPT ![p] = st]
    /\ UNCHANGED <<confVars, termination_stage, alarmArmed, pending, mask,
                   stack, interrupted, rc, exitVars, envVars, histVars>>

\* A process forked by a descendant becomes a direct child of the supervisor
\* (prctl(PR_SET_CHILD_SUBREAPER) or pid 1, main lines 250-256).
Adopt(p) ==
    /\ Running
    /\ AboutToLookAtChildren
    /\ child[p] = "none"
    /\ \E q \in Pids : child[q] = "running"
    /\ child' = [child EXCEPT ![p] = "running"]
    /\ adopted' = adopted \cup {p}
    /\ UNCHANGED <<confVars, termination_stage, alarmArmed, pending, mask,
                   stack, interrupted, cstat, rc, exitVars, envVars, logVars,
                   tickDue>>

\* --------------------------------------------------------- signal delivery
\* A handler in which the forwarded signals fall into the SIGALRM branch.
HandlerEntryAdvancing(sig) ==
    IF sig = SIGTERM THEN "h_reset" ELSE "tc_check"

\* The first statement a handler for sig executes (signal_handler, 174-185).
HandlerEntry(sig) ==
    CASE sig = SIGALRM -> "tc_check"
      [] sig = SIGTERM -> "h_reset"
      [] OTHER         -> "ss_send"

\* A pending, unblocked signal is delivered: the handler frame is pushed, the
\* old mask saved in it, and the signal itself blocked while it runs.
Deliver(s) ==
    /\ Running
    /\ s \in Deliverable
    /\ Depth < MaxDepth
    /\ pending' = pending \ {s}
    /\ stack' = Append(stack, Frame(s, HandlerEntry(s), mask, s, 0,
                                    termination_stage))
    /\ mask' = mask \cup {s}
    /\ UNCHANGED <<confVars, termination_stage, alarmArmed, interrupted,
                   childVars, rc, exitVars, envVars, histVars>>

\* signal_handler returns: the frame is popped and the saved mask restored.
HRet ==
    /\ At("h_ret")
    /\ stack' = SubSeq(stack, 1, Depth - 1)
    /\ mask' = Top.saved
    /\ interrupted' = (interrupted \/ (Depth = 2 /\ stack[1].pc = "wait"))
    /\ UNCHANGED <<confVars, termination_stage, alarmArmed, pending,
                   childVars, rc, exitVars, envVars, histVars>>

\* case SIGTERM, lines 179-180: alarm(0); conf.termination_stage = 0
HReset ==
    /\ At("h_reset")
    /\ alarmArmed' = FALSE
    /\ termination_stage' = 0
    /\ escLog' = <<>>
    /\ tickDue' = FALSE
    /\ stack' = Goto("tc_check")
    /\ UNCHANGED <<confVars, pending, mask, interrupted, childVars, rc,
                   exitVars, envVars, observed, waitFailed, mainAdvances,
                   termSent, lastBcast, adopted>>

\* ---------------------------------------------------------------- main loop
IsMain == Depth = 1 /\ Top.ctx = MainCtx

\* An aggregate in which the last failure wins.
AggregateRcLast(old, child_rc) == IF child_rc # 0 THEN child_rc ELSE old

\* main, lines 434-436: if (!rc) rc = child_rc
AggregateRc(old, child_rc) == IF old = 0 THEN child_rc ELSE old

\* wait() returns a terminated child (lines 412, 426-436).
WaitReap(p) ==
    /\ At("wait") /\ IsMain
    /\ child[p] = "zombie"
    /\ child' = [child EXCEPT ![p] = "reaped"]
    /\ cstat' = [cstat EXCEPT ![p] = 0]
    /\ rc' = AggregateRc(rc, ChildRc(cstat[p]))
    /\ observed' = Append(observed, ChildRc(cstat[p]))
    /\ interrupted' = FALSE
    /\ stack' = Goto("check_stage")
    /\ UNCHANGED <<confVars, termination_stage, alarmArmed, pending, mask,
                   exitVars, envVars, escLog, waitFailed, mainAdvances,
                   termSent, lastBcast, adopted, tickDue>>

\* what the process exits with when main returns r: the low byte
ReturnStatus(r) == r % 256

\* A wait() that reports ECHILD as soon as no child is running.
EchildEarly == \A p \in Pids : child[p] # "running"

\* wait() has nothing to wait for (ECHILD): the calling process has no child,
\* running or zombie.
Echild == Listed = {}

\* wait() fails with ECHILD: the loop ends and main returns rc (416-418, 445).
WaitEchild ==
    /\ At("wait") /\ IsMain
    /\ Echild
    /\ exitKind' = "returned"
    /\ exitStatus' = ReturnStatus(rc)
    /\ interrupted' = FALSE
    /\ UNCHANGED <<confVars, termination_stage, alarmArmed, pending, mask,
                   stack, childVars, rc, envVars, histVars>>

\* wait() fails with EINTR after a handler ran: the loop goes round (414-415).
WaitEintr ==
    /\ At("wait") /\ IsMain
    /\ interrupted
    /\ interrupted' = FALSE
    /\ UNCHANGED <<confVars, termination_stage, alarmArmed, pending, mask,
                   stack, childVars, rc, exitVars, envVars, histVars>>

\* An error path that treats the failure like a child's exit code.
MarkFailedIfClean(old) == IF old = 0 THEN 1 ELSE old

\* main, line 421: rc = 1
MarkFailed(old) == 1

\* wait() fails with another error: rc = 1 (419-421), then the stage check
\* of line 422.
WaitOther ==
    /\ At("wait") /\ IsMain
    /\ nEvents < MaxEvents
    /\ nEvents' = nEvents + 1
    /\ UNCHANGED nStalls
    /\ rc' = MarkFailed(rc)
    /\ waitFailed' = TRUE
    /\ interrupted' = FALSE
    /\ stack' = Goto("check_stage_err")
    /\ UNCHANGED <<confVars, termination_stage, alarmArmed, pending, mask,
                   childVars, exitVars, escLog, observed, mainAdvances,
                   termSent, lastBcast, adopted, tickDue>>

\* A main loop that starts the escalation at every exit.
MayStartAlways(stage) == stage >= 0

\* main, lines 422 and 437: if (!conf.termination_stage)
MayStart(stage) == stage = 0

\* main, lines 422-424 (after a wait() error) and 437-439 (after an exit):
\* start the escalation unless one is under way.
CheckStage ==
    /\ (At("check_stage") \/ At("check_stage_err")) /\ IsMain
    /\ IF MayStart(termination_stage)
         THEN /\ stack' = Goto("tc_check")
              /\ mainAdvances' = mainAdvances + 1
         ELSE /\ stack' = Goto("wait")
              /\ UNCHANGED mainAdvances
    /\ UNCHANGED <<confVars, termination_stage, alarmArmed, pending, mask,
                   interrupted, childVars, rc, exitVars, envVars, escLog,
                   observed, waitFailed, termSent, lastBcast, adopted,
                   tickDue>>

\* ------------------------------------------------------ terminate_children
\* line 236: conf.termination_stage >= conf.termination_signals_count
Exhausted(stage) == stage >= Len(termination_signals)

\* alarm(seconds): a positive value arms the timer, replacing a pending one;
\* zero only cancels.
Alarm(seconds) == seconds > 0

\* lines 236-241: give up with exit(1), or arm the timer.
TcCheck ==
    /\ At("tc_check")
    /\ IF Exhausted(termination_stage)
         THEN /\ exitKind' = "exhausted"
              /\ exitStatus' = 1
              /\ UNCHANGED <<stack, alarmArmed, tickDue>>
         ELSE /\ alarmArmed' = Alarm(timeout)
              /\ tickDue' = FALSE
              /\ stack' = Goto("tc_send")
              /\ UNCHANGED exitVars
    /\ UNCHANGED <<confVars, termination_stage, pending, mask, interrupted,
                   childVars, rc, envVars, logVars, adopted>>

\* line 242, the argument: conf.termination_signals[conf.termination_stage].
\* The stage is read again here; an index past the end of the array reads
\* whatever lies behind it.
StepSignal(stage) ==
    IF stage < Len(termination_signals)
      THEN {termination_signals[stage + 1]}
      ELSE Garbage

\* -------------------------------------------------- send_signal_to_children
\* A broadcast to the children main spawned only.
TargetsSpawned == Listed \ adopted

\* lines 161-164: the pids read from the children file, each sent the signal
Targets == Listed

\* lines 141-167: block every signal, read the children file, kill() each.
Broadcast(sg) ==
    /\ mask' = AllSigs
    /\ lastBcast' = [sig |-> sg, to |-> Targets]

\* line 242 and, in send_signal_to_children, lines 141-167.
TcSend ==
    /\ At("tc_send")
    /\ \E sg \in StepSignal(termination_stage) :
          /\ Broadcast(sg)
          /\ stack' = SetTop([Top EXCEPT !.pc = "ss_unblock", !.sig = sg])
    /\ escLog' = Append(escLog, termination_stage)
    /\ UNCHANGED <<confVars, termination_stage, alarmArmed, pending,
                   interrupted, childVars, rc, exitVars, envVars, observed,
                   waitFailed, mainAdvances, termSent, adopted, tickDue>>

\* signal_handler, line 184: send_signal_to_children(sig), lines 141-167.
SsSend ==
    /\ At("ss_send")
    /\ Broadcast(Top.sig)
    /\ stack' = Goto("ss_unblock")
    /\ UNCHANGED <<confVars, termination_stage, alarmArmed, pending,
                   interrupted, childVars, rc, exitVars, envVars, escLog,
                   observed, waitFailed, mainAdvances, termSent, adopted,
                   tickDue>>

IsEscalation(f) == f.ctx \in {MainCtx, SIGALRM, SIGTERM}

\* line 169: sigprocmask(SIG_UNBLOCK, &conf.set, 0), then back to the caller:
\* line 243 of terminate_children, or the end of signal_handler.
SsUnblock ==
    /\ At("ss_unblock")
    /\ mask' = {}
    /\ stack' = Goto(IF IsEscalation(Top) THEN "tc_load" ELSE "h_ret")
    /\ UNCHANGED <<confVars, termination_stage, alarmArmed, pending,
                   interrupted, childVars, rc, exitVars, envVars, histVars>>

\* line 243, ++conf.termination_stage: the load ...
TcLoad ==
    /\ At("tc_load")
    /\ stack' = SetTop([Top EXCEPT !.pc = "tc_store", !.tmp = termination_stage])
    /\ UNCHANGED <<confVars, termination_stage, alarmArmed, pending, mask,
                   interrupted, childVars, rc, exitVars, envVars, histVars>>

\* ... and the store of the incremented value; then terminate_children
\* returns, to the main loop or to the end of signal_handler.
Incremented(v) == v + 1

TcStore ==
    /\ At("tc_store")
    /\ termination_stage' = Incremented(Top.tmp)
    /\ stack' = SetTop([Top EXCEPT
                          !.pc = IF Top.ctx = MainCtx THEN "wait" ELSE "h_ret",
                          !.sig = Top.ctx, !.tmp = 0])
    /\ UNCHANGED <<confVars, alarmArmed, pending, mask, interrupted,
                   childVars, rc, exitVars, envVars, histVars>>

\* ----------------------------------------------------------- specification
Supervisor ==
    \/ \E p \in Pids : WaitReap(p)
    \/ WaitEchild
    \/ WaitEintr
    \/ WaitOther
    \/ CheckStage
    \/ TcCheck
    \/ TcSend
    \/ SsSend
    \/ SsUnblock
    \/ TcLoad
    \/ TcStore
    \/ HReset
    \/ HRet

Kernel ==
    \/ \E s \in AllSigs : Deliver(s)
    \/ TimerExpire

Environment ==
    \/ \E s \in {SIGTERM} \cup ForwardSet : SendSignal(s)
    \/ \E p \in Pids, st \in WaitStats : ChildExit(p, st)
    \/ \E p \in Pids : Adopt(p)

Next == Supervisor \/ Kernel \/ Environment

Spec == Init /\ [][Next]_vars

\* ------------------------------------------------------------------ startup
\* main before its loop (lines 246-407), one action per phase and per loop
\* iteration.  The arguments explored:
Words ==
    {Flag("k"), Flag("s"), Flag("t"), Flag("h"), Flag("x"), Delimiter,
     <<"a">>, <<>>, <<"1">>, <<"9">>, <<"1", ",">>, <<",">>, <<"9", "9">>,
     <<"-", "1">>}
ArgVectors == UNION {[1..n -> Words] : n \in 0..MaxArgs}

runVars == <<termination_stage, alarmArmed, pending, stack, interrupted,
             childVars, rc, envVars, histVars>>

\* main is entered (line 246): conf and the locals as lines 260-269 set them.
InitStartup ==
    /\ argv \in ArgVectors
    /\ spc = "start"
    /\ argi = 1
    /\ first_child_argv = Len(argv) + 1
    /\ child_argv = 0
    /\ spawn_count = 0
    /\ spawned = <<>>
    /\ forward_signals = <<>>
    /\ diag = ""
    /\ termination_signals = <<>>
    /\ timeout = DefaultTimeout
    /\ termination_stage = 0
    /\ alarmArmed = FALSE
    /\ pending = {}
    /\ mask = {}
    /\ stack = <<Frame(MainCtx, "startup", {}, 0, 0, 0)>>
    /\ interrupted = FALSE
    /\ child = [p \in Pids |-> "none"]
    /\ cstat = [p \in Pids |-> 0]
    /\ rc = 0
    /\ exitKind = "running"
    /\ exitStatus = 0
    /\ nEvents = 0
    /\ nStalls = 0
    /\ escLog = <<>>
    /\ observed = <<>>
    /\ waitFailed = FALSE
    /\ mainAdvances = 0
    /\ termSent = FALSE
    /\ lastBcast = [sig |-> 0, to |-> {}]
    /\ adopted = {}
    /\ tickDue = FALSE

\* main returns (or exit() is called) during startup
StartupExit(kind, status, message) ==
    /\ exitKind' = kind
    /\ exitStatus' = status
    /\ diag' = message
ConfigError(message) == StartupExit("config_error", 1, message)

\* lines 250-258: prctl(PR_SET_CHILD_SUBREAPER) unless pid 1
Subreaper ==
    /\ Running /\ spc = "start"
    /\ \/ ConfigError("prctl failed") /\ UNCHANGED spc
       \/ spc' = "parse" /\ UNCHANGED <<exitVars, diag>>
    /\ UNCHANGED <<termination_signals, timeout, argv, argi, first_child_argv,
                   child_argv, spawn_count, spawned, forward_signals, mask,
                   runVars>>

\* One iteration of the loop over the options (lines 273-332).
ParseArgs ==
    /\ Running /\ spc = "parse"
    /\ IF argi > Len(argv)
         THEN /\ spc' = "register"
              /\ UNCHANGED <<termination_signals, timeout, argi,
                             first_child_argv, forward_signals, exitVars, diag>>
       ELSE IF IsOption(argv[argi]) /\ argv[argi][2] = "h"
         THEN /\ StartupExit("help", 0, "usage")
              /\ UNCHANGED <<termination_signals, timeout, argi,
                             first_child_argv, forward_signals, spc>>
       ELSE IF IsOption(argv[argi]) /\ argv[argi][2] = "k"
         THEN LET r == read_signals_array(argv[argi + 1], termination_signals)
              IN  /\ IF ~HasValue(argi + 1)
                       THEN /\ ConfigError("no termination step list given")
                            /\ UNCHANGED <<termination_signals, argi>>
                     ELSE IF r.rc # 0
                       THEN /\ ConfigError(r.diag)
                            /\ UNCHANGED <<termination_signals, argi>>
                     ELSE /\ termination_signals' = r.signals
                          /\ argi' = argi + 2
                          /\ UNCHANGED <<exitVars, diag>>
                  /\ UNCHANGED <<timeout, first_child_argv, forward_signals,
                                 spc>>
       ELSE IF IsOption(argv[argi]) /\ argv[argi][2] = "s"
         THEN LET r == read_signals_array(argv[argi + 1], forward_signals)
              IN  /\ IF ~HasValue(argi + 1)
                       THEN /\ ConfigError("no signals to forward given")
                            /\ UNCHANGED <<forward_signals, argi>>
                     ELSE IF r.rc # 0
                       THEN /\ ConfigError(r.diag)
                            /\ UNCHANGED <<forward_signals, argi>>
                     ELSE /\ forward_signals' = r.signals
                          /\ argi' = argi + 2
                          /\ UNCHANGED <<exitVars, diag>>
                  /\ UNCHANGED <<timeout, first_child_argv,
                                 termination_signals, spc>>
       ELSE IF IsOption(argv[argi]) /\ argv[argi][2] = "t"
         THEN LET r == ParseTimeout(argv[argi + 1])
              IN  /\ IF ~HasValue(argi + 1)
                       THEN /\ ConfigError("no timeout given")
                            /\ UNCHANGED <<timeout, argi>>
                     ELSE IF ~r.ok
                       THEN /\ ConfigError("invalid timeout")
                            /\ UNCHANGED <<timeout, argi>>
                     ELSE /\ timeout' = r.val
                          /\ argi' = argi + 2
                          /\ UNCHANGED <<exitVars, diag>>
                  /\ UNCHANGED <<termination_signals, first_child_argv,
                                 forward_signals, spc>>
       ELSE IF ~IsOption(argv[argi]) /\ IsDelimiter(argv[argi])
         THEN /\ first_child_argv' = argi + 1
              /\ spc' = "register"
              /\ UNCHANGED <<termination_signals, timeout, argi,
                             forward_signals, exitVars, diag>>
       ELSE /\ ConfigError("unexpected argument")
            /\ UNCHANGED <<termination_signals, timeout, argi,
                           first_child_argv, forward_signals, spc>>
    /\ UNCHANGED <<argv, child_argv, spawn_count, spawned, mask, runVars>>

\* lines 334-355: the default lists where no -k or no -s was given
WithDefault(signals, default) == IF signals = <<>> THEN default ELSE signals

\* lines 334-376: the defaults, every signal blocked, then the handlers: of
\* the forwarded signals first, then of SIGALRM and SIGTERM.
Register ==
    /\ Running /\ spc = "register"
    /\ termination_signals' =
          WithDefault(termination_signals, <<SIGTERM, SIGKILL>>)
    /\ forward_signals' = WithDefault(forward_signals, <<SIGINT>>)
    /\ mask' = AllSigs
    /\ IF \E k \in DOMAIN forward_signals' : ~Catchable(forward_signals'[k])
         THEN ConfigError("registering signal failed") /\ UNCHANGED spc
         ELSE spc' = "procfile" /\ UNCHANGED <<exitVars, diag>>
    /\ UNCHANGED <<timeout, argv, argi, first_child_argv, child_argv,
                   spawn_count, spawned, runVars>>

\* lines 378-398: the children file of the main thread is opened once, to
\* see that it is there; then spawn_children is entered (line 401). The path
\* is written into n bytes with its terminator as byte n + 1 (lines 382 and
\* 387): the write past the block is unnoticed where the allocator rounds the
\* block up, and ends the process where the build checks heap accesses.
ProcFile ==
    /\ Running /\ spc = "procfile"
    /\ \/ ConfigError("can't open children file")
          /\ UNCHANGED <<spc, argi, child_argv>>
       \/ StartupExit("aborted", 134, "heap overflow")
          /\ UNCHANGED <<spc, argi, child_argv>>
       \/ /\ spc' = "spawn"
          /\ argi' = first_child_argv
          /\ child_argv' = first_child_argv
          /\ UNCHANGED <<exitVars, diag>>
    /\ UNCHANGED <<termination_signals, timeout, argv, first_child_argv,
                   spawn_count, spawned, forward_signals, mask, runVars>>

\* A spawn_children that spawns at every delimiter.
RunOrEmpty(from, to) == from <= to

\* line 219: child_argv != argv + i, the run before the delimiter is not empty
RunNonEmpty(from, to) == from # to

\* lines 221-222, 229-230 and spawn (189-210): the count, then fork and, in
\* the child, execvp of the run; a failed fork ends the supervisor.
Spawn(run) ==
    \/ /\ spawn_count' = spawn_count + 1
       /\ spawned' = Append(spawned, run)
       /\ UNCHANGED <<exitVars, diag>>
    \/ /\ spawn_count' = spawn_count + 1
       /\ StartupExit("spawn_error", 1, "fork failed")
       /\ UNCHANGED spawned

\* One iteration of the loop of spawn_children (lines 216-227).
SpawnArgs ==
    /\ Running /\ spc = "spawn"
    /\ IF argi > Len(argv)
         THEN /\ spc' = "spawn_tail"
              /\ UNCHANGED <<argi, child_argv, spawn_count, spawned,
                             exitVars, diag>>
       ELSE IF IsDelimiter(argv[argi])
         THEN /\ IF RunNonEmpty(child_argv, argi)
                   THEN Spawn(SubSeq(argv, child_argv, argi - 1))
                   ELSE UNCHANGED <<spawn_count, spawned, exitVars, diag>>
              /\ child_argv' = argi + 1
              /\ argi' = argi + 1
              /\ UNCHANGED spc
       ELSE /\ argi' = argi + 1
            /\ UNCHANGED <<spc, child_argv, spawn_count, spawned, exitVars,
                           diag>>
    /\ UNCHANGED <<termination_signals, timeout, argv, first_child_argv,
                   forward_signals, mask, runVars>>

\* lines 228-232: the run after the last delimiter, then the count returned
SpawnTail ==
    /\ Running /\ spc = "spawn_tail"
    /\ IF child_argv <= Len(argv)
         THEN Spawn(SubSeq(argv, child_argv, Len(argv)))
         ELSE UNCHANGED <<spawn_count, spawned, exitVars, diag>>
    /\ spc' = "spawned"
    /\ UNCHANGED <<termination_signals, timeout, argv, argi, first_child_argv,
                   child_argv, forward_signals, mask, runVars>>

\* line 401: !spawn_children(first_child_argv)
ZeroSpawned(count) == count = 0

\* lines 401-409: no child is fatal; else the signals are unblocked and the
\* loop is entered.
SpawnDone ==
    /\ Running /\ spc = "spawned"
    /\ IF ZeroSpawned(spawn_count)
         THEN ConfigError("no children to spawn") /\ UNCHANGED <<spc, mask>>
         ELSE /\ spc' = "loop"
              /\ mask' = {}
              /\ UNCHANGED <<exitVars, diag>>
    /\ UNCHANGED <<termination_signals, timeout, argv, argi, first_child_argv,
                   child_argv, spawn_count, spawned, forward_signals, runVars>>

NextStartup ==
    \/ Subreaper
    \/ ParseArgs
    \/ Register
    \/ ProcFile
    \/ SpawnArgs
    \/ SpawnTail
    \/ SpawnDone

SpecStartup == InitStartup /\ [][NextStartup]_vars

\* ------------------------------------------------------------ vocabulary
N == Len(termination_signals)
Steps == [k \in 1..N |-> k - 1]          \* the step indexes 0..N-1, in order
Range(f) == {f[i] : i \in DOMAIN f}
Terminated == {p \in Pids : child[p] \in {"zombie", "reaped"}}
Alive == {p \in Pids : child[p] = "running"}
TickPending == alarmArmed \/ SIGALRM \in pending

\* The top frame takes a step of its own (it is neither interrupted by a new
\* handler nor left alone while the environment moves).
OwnStep == stack' # stack /\ Len(stack') <= Depth

\* The ordinary runs: wait() never fails with an error it cannot fail with,
\* and the timer never runs out while the supervisor is executing.
Ordinary == ~waitFailed /\ nStalls = 0

\* -------------------------------------------------------------------- C1
\* C1: once the escalation has started, with a descendant that never
\* terminates and no SIGTERM, the supervisor broadcasts step 0, 1, .., N-1 in
\* this order and nothing else, has a tick coming whenever it waits, and ends
\* by exhaustion with status 1.  The case: exactly one child has terminated
\* (the one whose exit started the escalation) and another one is running.
C1_Case ==
    /\ Ordinary /\ ~termSent
    /\ Cardinality(Terminated) = 1 /\ Alive # {}
    /\ (escLog # <<>> \/ ~Running)
C1_ExactlyNThenExit1 ==
    C1_Case =>
       /\ Len(escLog) <= N
       /\ escLog = SubSeq(Steps, 1, Len(escLog))
       /\ (Running /\ Asleep => TickPending)
       /\ (~Running => exitKind = "exhausted" /\ exitStatus = 1 /\ escLog = Steps)

\* -------------------------------------------------------------------- C2
\* C2: when the main loop looks at the stage after an exit, a stage of 0
\* starts terminate_children, a stage above 0 takes it straight back to
\* wait() with no signal sent, no timer armed and the stage untouched; and
\* the main loop starts terminate_children at most once.
MainLooks == Running /\ Depth = 1 /\ Top.pc = "check_stage" /\ OwnStep
C2_OneAdvancePerEscalation ==
    [][ /\ (MainLooks /\ termination_stage = 0 =>
               /\ stack'[1].pc = "tc_check"
               /\ mainAdvances' = mainAdvances + 1)
        /\ (MainLooks /\ termination_stage > 0 =>
               /\ stack'[1].pc = "wait"
               /\ UNCHANGED <<termination_stage, alarmArmed, lastBcast,
                              escLog, mainAdvances>>)
        /\ mainAdvances' <= 1 ]_vars
\* a second exit was observed during the escalation and started nothing
C2_Witness ==
    /\ Running /\ Depth = 1 /\ Top.pc = "wait"
    /\ Len(observed) = 2 /\ ~waitFailed
    /\ mainAdvances = 1 /\ termination_stage > 0

\* -------------------------------------------------------------------- C3
\* C3: when the handling of a SIGTERM that arrived at a stage above 0 is
\* complete, the stage is 1 and a timer armed by it is pending (stated for
\* the positive timeouts, with a child still running).
TermHandled == Running /\ Top.ctx = SIGTERM /\ Top.pc = "h_ret" /\ Top.rstage > 0
C3_RestartLeavesStageOne ==
    Ordinary /\ timeout > 0 /\ Alive # {} /\ TermHandled =>
        termination_stage = 1 /\ TickPending

\* -------------------------------------------------------------------- C4
\* C4: the handler of a forwarded signal broadcasts that signal to every
\* child listed at the time, and none of its steps changes the stage or the
\* timer.
Forwarding == Running /\ Top.ctx \in ForwardSet /\ OwnStep
C4_ForwardOnly ==
    [][ Forwarding =>
          /\ UNCHANGED <<termination_stage, alarmArmed, escLog>>
          /\ (Top.pc = "ss_send" =>
                 lastBcast' = [sig |-> Top.ctx, to |-> Listed]) ]_vars
\* a forwarded signal was broadcast in the middle of an escalation
C4_Witness ==
    /\ Running /\ Top.ctx = SIGINT /\ Top.pc = "h_ret"
    /\ termination_stage > 0 /\ alarmArmed
    /\ lastBcast.sig = SIGINT /\ lastBcast.to # {}

\* -------------------------------------------------------------------- C5
\* C5: the aggregate is 1 after a wait() failure, else the first non-zero
\* child code the main loop has observed, else 0; a normal return exits with
\* it, exhaustion with 1.
RECURSIVE FirstNonZero(_)
FirstNonZero(codes) ==
    IF codes = <<>> THEN 0
    ELSE IF Head(codes) # 0 THEN Head(codes)
    ELSE FirstNonZero(Tail(codes))
C5_ExitStatus ==
    /\ rc = IF waitFailed THEN 1 ELSE FirstNonZero(observed)
    /\ exitKind = "returned" =>
          /\ exitStatus = IF waitFailed THEN 1 ELSE FirstNonZero(observed)
          /\ Len(observed) = Cardinality(Terminated)
          /\ \A p \in Pids : child[p] # "zombie"
    /\ exitKind = "exhausted" => exitStatus = 1
    /\ (exitStatus = 0 /\ ~Running) =>
          /\ exitKind = "returned" /\ ~waitFailed
          /\ \A i \in DOMAIN observed : observed[i] = 0
\* two children failed; the first code observed is the exit status
C5_Witness ==
    /\ exitKind = "returned"
    /\ Len(observed) = 2 /\ observed[1] # 0 /\ observed[2] # 0
    /\ observed[1] # observed[2] /\ exitStatus = observed[1]

\* -------------------------------------------------------------------- C6
\* C6: wherever the code reads or writes the stage or calls alarm(), every
\* signal is blocked.
TouchesShared(pc) ==
    pc \in {"check_stage", "check_stage_err", "tc_check", "tc_send", "tc_load",
            "tc_store", "h_reset"}
C6_TouchedOnlyBlocked ==
    Ordinary /\ Running /\ TouchesShared(Top.pc) => mask = AllSigs

\* -------------------------------------------------------------------- C7
\* C7: no handler starts while an advance (from the stage check to the
\* increment) is in progress: no interrupted frame is inside one.
InAdvance(pc) == pc \in {"tc_send", "ss_unblock", "tc_load", "tc_store"}
C7_NoInterleaving ==
    Ordinary => \A i \in 1..(Depth - 1) : ~InAdvance(stack[i].pc)

\* -------------------------------------------------------------------- C8
\* C8: whenever the supervisor waits with the escalation started, the timer
\* armed by the last advance (or its tick) is pending, for every accepted
\* timeout.
C8_TimerDrivesEscalation ==
    Ordinary /\ Running /\ Asleep /\ termination_stage > 0 => TickPending

\* -------------------------------------------------------------------- C9
\* C9: the supervisor gives up by exhaustion only when every step 0..N-1 has
\* been broadcast since the stage was last reset.
C9_ExhaustedAfterAllSteps ==
    Ordinary /\ exitKind = "exhausted" =>
        \A k \in 0..(N - 1) : k \in Range(escLog)

\* ------------------------------------------------------------------- C10
\* C10: the supervisor gives up by exhaustion only while a child is left.
C10_ExhaustedOnlyWithChildren ==
    Ordinary /\ exitKind = "exhausted" => Listed # {}

\* ------------------------------------------------------------------- C11
\* C11: the loop ends with a normal return only by the step in which wait()
\* reports ECHILD, main then returns the aggregate, and at a normal return
\* no process that ever was a child is running or an unreaped zombie; the
\* step in which wait() reports EINTR stays in the loop and changes neither
\* the aggregate nor the stage.
EverChild == {p \in Pids : child[p] # "none"}
C11_LoopEndsOnlyOnEchild ==
    /\ [](exitKind = "returned" =>
            /\ \A p \in EverChild : child[p] = "reaped"
            /\ Len(observed) = Cardinality(EverChild))
    /\ [][ /\ (exitKind = "running" /\ exitKind' = "returned" =>
                 /\ IsMain /\ Top.pc = "wait"
                 /\ \A p \in Pids : child[p] \in {"none", "reaped"}
                 /\ exitStatus' = rc % 256)
          /\ (WaitEintr =>
                 /\ exitKind' = "running" /\ stack'[1].pc = "wait"
                 /\ UNCHANGED <<rc, termination_stage, alarmArmed>>) ]_vars
\* a normal return after an adopted or second child was reaped as well, a
\* handler having interrupted the loop on the way
C11_Witness ==
    /\ exitKind = "returned" /\ Cardinality(EverChild) = 2
    /\ termSent /\ ~waitFailed

\* ------------------------------------------------------------------- C12
\* C12: what the SIGTERM handler broadcasts to the children, after resetting
\* the steps, is SIGTERM, whatever the -k list.
TermBroadcastDone == Running /\ Top.ctx = SIGTERM /\ Top.pc = "ss_unblock"
C12_TermIsForwarded ==
    Ordinary /\ TermBroadcastDone => lastBcast.sig = SIGTERM

\* ------------------------------------------------------------------- C13
\* C13: the step in which wait() fails with another error sets the aggregate
\* to 1; the stage check that follows starts terminate_children exactly when
\* the stage is 0, and with a stage above 0 goes back to wait() with nothing
\* sent, nothing armed and the stage untouched; the aggregate stays 1.
ErrLooks == Running /\ Depth = 1 /\ Top.pc = "check_stage_err" /\ OwnStep
C13_WaitErrorForcesFailure ==
    [][ /\ (WaitOther => rc' = 1 /\ stack'[1].pc = "check_stage_err"
                         /\ UNCHANGED <<termination_stage, alarmArmed>>)
        /\ (ErrLooks => rc = 1 /\ rc' = 1)
        /\ (ErrLooks /\ termination_stage = 0 =>
               /\ stack'[1].pc = "tc_check"
               /\ mainAdvances' = mainAdvances + 1)
        /\ (ErrLooks /\ termination_stage > 0 =>
               /\ stack'[1].pc = "wait"
               /\ UNCHANGED <<termination_stage, alarmArmed, lastBcast,
                              escLog, mainAdvances>>) ]_vars
\* a wait() error during an escalation, after a child had failed with
\* another code: the aggregate is 1 and the stage check has nothing to start
C13_Witness ==
    /\ Running /\ Depth = 1 /\ Top.pc = "check_stage_err"
    /\ termination_stage > 0 /\ rc = 1
    /\ observed # <<>> /\ observed[1] > 1

\* ------------------------------------------------------------------- C16
\* C16: every step that changes the stage either adds exactly 1 to it or is
\* the SIGTERM handler's reset to 0.
C16_StageStepsByOne ==
    [][ Ordinary /\ termination_stage' # termination_stage =>
           \/ termination_stage' = termination_stage + 1
           \/ (Top.ctx = SIGTERM /\ Top.pc = "h_reset"
                  /\ termination_stage' = 0) ]_vars

\* ------------------------------------------------------------------- C18
\* C18: the index with which line 242 reads the step list at a broadcast
\* lies in 0..N-1.
C18_IndexInRange ==
    Ordinary => \A i \in DOMAIN escLog : escLog[i] \in 0..(N - 1)

\* ------------------------------------------------------------------- C17
\* C17: every broadcast, of an escalation step or of a forwarded signal,
\* goes to exactly the processes that are children of the supervisor at that
\* moment (spawned or adopted, running or not yet reaped), changes nothing
\* about them, and proceeds to the unblocking also when there is none.
Broadcasting == Running /\ Top.pc \in {"tc_send", "ss_send"} /\ OwnStep
C17_BroadcastToCurrentChildren ==
    [][ Broadcasting =>
          /\ lastBcast'.to = {p \in Pids : child[p] \in {"running", "zombie"}}
          /\ \A p \in lastBcast'.to : child[p] # "reaped"
          /\ stack'[Depth].pc = "ss_unblock"
          /\ UNCHANGED <<childVars, termination_stage, alarmArmed>> ]_vars
\* a broadcast that reached an adopted child and left out a reaped one
C17_Witness ==
    /\ Running /\ Top.pc = "ss_unblock"
    /\ lastBcast.to \cap adopted # {}
    /\ \E p \in Pids : child[p] = "reaped" /\ p \notin lastBcast.to

\* ------------------------------------------------------------------- C19
\* C19: when a SIGALRM handler starts its advance, the timer armed by the
\* advance before it has run out, with no advance and no reset since.
TickAdvances == Running /\ Top.ctx = SIGALRM /\ Top.pc = "tc_check" /\ OwnStep
C19_TickFromLatestTimer ==
    [][ Ordinary /\ TickAdvances => tickDue ]_vars

\* ------------------------------------------------------------------- C14
\* The arguments after the first delimiter, cut at every further delimiter.
RECURSIVE SplitRuns(_, _)
SplitRuns(args, run) ==
    IF args = <<>> THEN <<run>>
    ELSE IF Head(args) = Delimiter
      THEN <<run>> \o SplitRuns(Tail(args), <<>>)
    ELSE SplitRuns(Tail(args), Append(run, Head(args)))
ChildArgs == SubSeq(argv, first_child_argv, Len(argv))
IsRun(run) == run # <<>>
NonEmptyRuns == SelectSeq(SplitRuns(ChildArgs, <<>>), IsRun)
Forked == exitKind # "spawn_error"
\* The spawned argument vectors are the first k non-empty runs.
SpawnedSoFar ==
    /\ Len(spawned) <= Len(NonEmptyRuns)
    /\ spawned = SubSeq(NonEmptyRuns, 1, Len(spawned))

\* C14: while spawn_children runs, the subprocesses spawned are the first
\* non-empty runs in order, each with its run as argv; when it has returned,
\* there is exactly one per non-empty run and the count is their number; and
\* with no non-empty run the supervisor exits with status 1 instead of
\* entering its loop.
C14_OnePerNonEmptyRun ==
    /\ spc \in {"spawn", "spawn_tail"} /\ Forked => SpawnedSoFar
    /\ spc \in {"spawned", "loop"} /\ Forked =>
          /\ spawned = NonEmptyRuns
          /\ spawn_count = Len(NonEmptyRuns)
    /\ spc = "loop" => NonEmptyRuns # <<>>
    /\ spc = "spawned" /\ ~Running /\ Forked =>
          /\ NonEmptyRuns = <<>>
          /\ exitKind = "config_error" /\ exitStatus = 1
\* two different commands spawned in their order
C14_Witness ==
    /\ spc = "loop"
    /\ spawn_count = 2
    /\ spawned[1] # spawned[2]
    /\ Len(SplitRuns(ChildArgs, <<>>)) = 2
\* an empty run before and one after the only command
C14_WitnessEmptyRuns ==
    /\ spc = "loop"
    /\ spawn_count = 1
    /\ Len(SplitRuns(ChildArgs, <<>>)) = 3
\* only empty runs: the exit with status 1
C14_WitnessNoRun ==
    /\ spc = "spawned" /\ exitKind = "config_error"
    /\ Len(SplitRuns(ChildArgs, <<>>)) = 2

\* ------------------------------------------------------------------- C15
\* What makes a command line wrong, said without the parser.
ValueFlags == {Flag("k"), Flag("s"), Flag("t")}
KnownWords == ValueFlags \cup {Flag("h"), Delimiter}
AllDigits(str) == \A k \in DOMAIN str : IsDigit(str[k])
RECURSIVE Value(_)
Value(str) ==
    IF str = <<>> THEN 0
    ELSE 10 * Value(SubSeq(str, 1, Len(str) - 1)) + DigitVal(str[Len(str)])
Negative(str) ==
    /\ Len(str) > 1 /\ str[1] = "-"
    /\ AllDigits(Tail(str)) /\ Value(Tail(str)) > 0
BadList(str) ==
    \/ str = <<>>
    \/ \E k \in DOMAIN str : ~IsDigit(str[k]) /\ str[k] \notin {",", "-", "+"}
    \/ str[1] = ","
    \/ \E k \in 1..(Len(str) - 1) : str[k] = "," /\ str[k + 1] = ","
    \/ Negative(str)
    \/ AllDigits(str) /\ Value(str) > SIGRTMAX
BadTimeout(str) ==
    \/ str = <<>>
    \/ \E k \in DOMAIN str : ~IsDigit(str[k]) /\ str[k] \notin {"-", "+"}
    \/ Negative(str)
\* The option at position pos, after options that take a value, is wrong.
OptionAt(pos) ==
    /\ pos \in DOMAIN argv /\ pos % 2 = 1
    /\ \A j \in 1..(pos - 1) : j % 2 = 1 => argv[j] \in ValueFlags
BadAt(pos) ==
    /\ OptionAt(pos)
    /\ \/ argv[pos] \notin KnownWords
       \/ /\ argv[pos] \in {Flag("k"), Flag("s")}
          /\ (pos = Len(argv) \/ BadList(argv[pos + 1]))
       \/ /\ argv[pos] = Flag("t")
          /\ (pos = Len(argv) \/ BadTimeout(argv[pos + 1]))
Spawning == spc \in {"spawn", "spawn_tail", "spawned", "loop"}
Configured ==
    /\ termination_signals # <<>>
    /\ \A k \in DOMAIN termination_signals :
          termination_signals[k] \in 0..SIGRTMAX
    /\ forward_signals # <<>>
    /\ \A k \in DOMAIN forward_signals : Catchable(forward_signals[k])
    /\ timeout >= 0
    /\ first_child_argv \in 1..(Len(argv) + 1)

\* C15: an exit for a configuration error has status 1, a diagnostic and no
\* subprocess; subprocesses exist only in the phases after parsing,
\* registration and the children-file check, which are entered only with a
\* complete configuration; a command line with a wrong option never leaves
\* the parsing, which ends in such an exit at the latest at that option; and
\* the loop is entered only with a subprocess.
C15_ConfigErrorSpawnsNothing ==
    /\ exitKind = "config_error" =>
          exitStatus = 1 /\ spawned = <<>> /\ diag # ""
    /\ spawned # <<>> => Spawning
    /\ Spawning => Configured
    /\ \A pos \in DOMAIN argv : BadAt(pos) =>
          /\ spc \in {"start", "parse"}
          /\ spawned = <<>>
          /\ \/ Running /\ (spc = "parse" => argi <= pos)
             \/ exitKind = "config_error"
    /\ ~Running /\ spc \in {"start", "register"} => exitKind = "config_error"
    /\ ~Running /\ spc = "procfile" =>
          /\ exitKind \in {"config_error", "aborted"}
          /\ spawned = <<>>
    /\ spc = "loop" => spawned # <<>>
\* -k with the empty string before a command: the exit, nothing spawned
C15_Witness ==
    /\ exitKind = "config_error" /\ exitStatus = 1
    /\ Len(argv) = 4
    /\ argv[1] = Flag("k") /\ argv[2] = <<>>
    /\ argv[3] = Delimiter /\ argv[4] = <<"a">>
    /\ spawned = <<>>
\* a signal that cannot be caught among the forwarded ones
C15_WitnessUnregistrable ==
    /\ exitKind = "config_error" /\ spc = "register"
    /\ SIGKILL \in Range(forward_signals)
    /\ NonEmptyRuns # <<>>
\* -t with the empty string
C15_WitnessTimeout ==
    /\ exitKind = "config_error" /\ spc = "parse"
    /\ Len(argv) = 4
    /\ argv[1] = Flag("t") /\ argv[2] = <<>>
    /\ argv[3] = Delimiter /\ argv[4] = <<"a">>
====
